---- MODULE Spec2Model ----
(***************************************************************************)
(* Model of Facebook_Clustering.py: the sum-of-squares metric, the cluster *)
(* partitioner and the evaluation loop of main().                          *)
(*                                                                         *)
(* Numbers.  The program computes in IEEE-754 binary64 (numpy float64):    *)
(* 53-bit significand, round to nearest with ties to even, gradual         *)
(* underflow, infinities and NaN.  The model computes the same numbers:    *)
(* every operation forms the exact result and rounds it once.  Since       *)
(* TLC's integers have 32 bits, significands are kept as sequences of      *)
(* limbs.                                                                  *)
(***************************************************************************)
EXTENDS Integers, Sequences, FiniteSets

VARIABLES
    pc,              \* position in main() / in the function under check
    df,              \* the cleaned dataset: a sequence of rows
    tss,             \* main: tss (line 121)
    centroid,        \* centroid computed by total_sum_of_squares_df (line 21)
    mi,              \* index into models (line 131)
    k,               \* loop variable k (line 136)
    model,           \* the model instance created at line 139
    assignments,     \* labels returned by run_model (line 140)
    cluster_indexes, \* get_cluster_data: cluster_indexes (line 62)
    clusters,        \* main: clusters (line 141)
    ci,              \* position of the loop of line 144 in clusters
    twss,            \* main: twss (line 143)
    printed,         \* the per-cluster lines of the current (model, k) pair
    ratio,           \* the ratio of the last twss/tss line (line 149)
    visited,         \* the (model, k) pairs whose twss/tss line was printed
    created,         \* number of model instances created so far
    tssLines,        \* number of "tss = ..." lines printed (line 122)
    banners          \* number of model banners printed (lines 132-135)

vars == <<pc, df, tss, centroid, mi, k, model, assignments, cluster_indexes,
          clusters, ci, twss, printed, ratio, visited, created, tssLines,
          banners>>

-----------------------------------------------------------------------------
(* Bounds of the model *)

MaxRows == 3
MainMaxRows == 2
MaxLabels == 2
MaxLen == 5

(* Program constants *)

ModelNames == <<"KMeans", "H-Clustering", "Gaussian Mixture">>
KFirst == 1
\* range(1, 10): the loop stops one k early
KStop_one_short == 11 - 1
KStop == 11
ColumnNames == <<"x", "y">>
Columns == DOMAIN ColumnNames

-----------------------------------------------------------------------------
(* Natural numbers of any size.  TLC's integers have 32 bits, a float64     *)
(* significand has 53 and a product of two has 106, so a natural number is  *)
(* a sequence of limbs below Base, least significant first, without zero    *)
(* limbs at the top; <<>> is 0.  Carries are found by lookahead, not by     *)
(* rippling, which keeps the evaluation flat.                               *)

LimbBits == 14
Base == 16384

\* 2^n for n below LimbBits
Pow2(n) == <<1, 2, 4, 8, 16, 32, 64, 128, 256, 512, 1024, 2048, 4096, 8192>>[n + 1]

Min(a, b) == IF a < b THEN a ELSE b
Max(a, b) == IF a < b THEN b ELSE a
MaxOf(S) == CHOOSE m \in S : \A x \in S : x <= m

\* a function on 1..n as a sequence value, every element computed once
AsSeq(f) == f \o <<>>

Limb(a, i) == IF i >= 1 /\ i <= Len(a) THEN a[i] ELSE 0

\* a without its zero limbs at the top
BTrim(a) ==
    LET nz == {i \in DOMAIN a : a[i] # 0}
    IN IF nz = {} THEN <<>> ELSE SubSeq(a, 1, MaxOf(nz))

\* the addition of a and b carries into limb i: some lower limb overflows
\* and every limb between passes the carry on
CarryInto(a, b, i) ==
    \E j \in 1..(i - 1) :
        /\ Limb(a, j) + Limb(b, j) >= Base
        /\ \A l \in (j + 1)..(i - 1) : Limb(a, l) + Limb(b, l) = Base - 1

BAdd(a, b) ==
    BTrim(AsSeq([i \in 1..(Max(Len(a), Len(b)) + 1) |->
             (Limb(a, i) + Limb(b, i) + (IF CarryInto(a, b, i) THEN 1 ELSE 0))
                 % Base]))

\* the subtraction of b from a borrows from limb i
BorrowFrom(a, b, i) ==
    \E j \in 1..(i - 1) :
        /\ Limb(a, j) < Limb(b, j)
        /\ \A l \in (j + 1)..(i - 1) : Limb(a, l) = Limb(b, l)

\* a - b for a >= b
BSub(a, b) ==
    BTrim(AsSeq([i \in 1..Len(a) |->
             (a[i] - Limb(b, i) - (IF BorrowFrom(a, b, i) THEN 1 ELSE 0) + Base)
                 % Base]))

\* -1, 0 or 1 as a is below, equal to or above b
BCmp(a, b) ==
    IF Len(a) < Len(b) THEN -1
    ELSE IF Len(a) > Len(b) THEN 1
    ELSE LET diff == {i \in DOMAIN a : a[i] # b[i]}
         IN IF diff = {} THEN 0
            ELSE IF a[MaxOf(diff)] < b[MaxOf(diff)] THEN -1 ELSE 1

\* the columns p (each below 2 * Base) as limbs: every column hands its
\* excess to the next one
BCarry(p) ==
    BAdd(AsSeq([i \in DOMAIN p |-> p[i] % Base]),
         AsSeq([i \in 1..(Len(p) + 1) |-> Limb(p, i - 1) \div Base]))

\* the number with the column values c (each below 2^30), as limbs
BNorm(c) ==
    BCarry(AsSeq([i \in 1..(Len(c) + 1) |->
                    (Limb(c, i) % Base) + (Limb(c, i - 1) \div Base)]))

\* a * d for d up to Base
BMulSmall(a, d) == BNorm(AsSeq([i \in DOMAIN a |-> a[i] * d]))

BShiftLimbs(a, n) == IF a = <<>> THEN a ELSE [i \in 1..n |-> 0] \o a

\* a * b for a of at most four limbs, as every significand is
BMul(a, b) ==
    BNorm(AsSeq([i \in 1..(Len(a) + Len(b)) |->
             Limb(a, 1) * Limb(b, i) + Limb(a, 2) * Limb(b, i - 1)
           + Limb(a, 3) * Limb(b, i - 2) + Limb(a, 4) * Limb(b, i - 3)]))

\* a * 2^n
BShl(a, n) ==
    LET r == n % LimbBits
        lo == Pow2((LimbBits - r) % LimbBits)
    IN IF r = 0
       THEN BShiftLimbs(a, n \div LimbBits)
       ELSE BShiftLimbs(BTrim(AsSeq([i \in 1..(Len(a) + 1) |->
                                      (Limb(a, i) % lo) * Pow2(r)
                                    + (Limb(a, i - 1) \div lo)])),
                        n \div LimbBits)

\* floor(a / 2^n)
BShr(a, n) ==
    LET q == n \div LimbBits
        r == Pow2(n % LimbBits)
    IN BTrim(AsSeq([i \in 1..Max(Len(a) - q, 0) |->
                (a[i + q] \div r) + (Limb(a, i + q + 1) % r) * (Base \div r)]))

\* the number of bits of a limb
SmallBitLen(x) == Cardinality({n \in 0..(LimbBits - 1) : Pow2(n) <= x})

BitLen(a) ==
    IF a = <<>> THEN 0 ELSE LimbBits * (Len(a) - 1) + SmallBitLen(a[Len(a)])

\* a natural number below 2^31 as limbs
BFromInt(n) == BTrim(<<n % Base, (n \div Base) % Base, n \div (Base * Base)>>)

\* bit i of a, counted from 0
Bit(a, i) == (Limb(a, (i \div LimbBits) + 1) \div Pow2(i % LimbBits)) % 2

\* one of the n lowest bits of a is set
LowBitsSet(a, n) ==
    \/ \E j \in 1..(n \div LimbBits) : Limb(a, j) # 0
    \/ Limb(a, (n \div LimbBits) + 1) % Pow2(n % LimbBits) # 0

-----------------------------------------------------------------------------
(* Numbers of the program.  A Python int n is <<"int", n>>.  A numpy        *)
(* float64 is <<"float", s, m, e>>: sign s (1 for negative), significand m  *)
(* (a natural number below 2^53) and exponent e, standing for               *)
(* (-1)^s * m * 2^e.  As in the IEEE-754 encoding, a normal number has a    *)
(* significand of exactly 53 bits, subnormals and zero have the exponent    *)
(* MinExp, and the exponent MaxExp + 1 marks infinity (m = 0) and NaN       *)
(* (m # 0); so every float64 has one representation.                        *)
(* Every operation forms the exact result and rounds it once.               *)

MantBits == 53
MinExp == -1074
MaxExp == 971

None == <<>>
ZeroDivisionError == <<"ZeroDivisionError">>

PyInt(n) == <<"int", n>>
Float(s, m, e) == <<"float", s, m, e>>
NaN == Float(0, <<1>>, MaxExp + 1)
Inf(s) == Float(s, <<>>, MaxExp + 1)
Zero(s) == Float(s, <<>>, MinExp)

IsInt(x) == x[1] = "int"
Sign(x) == x[2]
Mant(x) == x[3]
Exp(x) == x[4]
IsNaN(x) == Exp(x) = MaxExp + 1 /\ Mant(x) # <<>>
IsInf(x) == Exp(x) = MaxExp + 1 /\ Mant(x) = <<>>
IsZero(x) == Exp(x) = MinExp /\ Mant(x) = <<>>
IsSpecial(x) == Exp(x) = MaxExp + 1

\* the significand m at exponent e, or an infinity beyond the largest float64
Finite(s, m, e) == IF e > MaxExp THEN Inf(s) ELSE Float(s, m, e)

\* the rounded significand r at exponent te; a carry out of the top bit
\* moves the result to the next exponent
RoundCarry(s, r, te) ==
    IF BitLen(r) > MantBits
    THEN Finite(s, BShr(r, 1), te + 1)
    ELSE Finite(s, r, te)

\* q is N without its d lowest bits: q is raised by one when the dropped
\* bits are above half a unit, or at half a unit with q odd
RoundCut(N, d, q, sticky) ==
    IF /\ Bit(N, d - 1) = 1
       /\ \/ sticky
          \/ LowBitsSet(N, d - 1)
          \/ Limb(q, 1) % 2 = 1
    THEN BAdd(q, <<1>>)
    ELSE q

\* N * 2^e brought to the exponent te of the result
RoundTo(s, N, e, sticky, te) ==
    IF te <= e
    THEN Finite(s, BShl(N, e - te), te)
    ELSE RoundCarry(s, RoundCut(N, te - e, BShr(N, te - e), sticky), te)

\* the float64 nearest to (-1)^s * (N * 2^e + t), where 0 < t < 2^e if
\* sticky and t = 0 otherwise; ties go to the even significand.  The
\* exponent of the result leaves MantBits bits of N and is at least MinExp.
Round(s, N, e, sticky) ==
    IF N = <<>> /\ ~sticky
    THEN Zero(s)
    ELSE RoundTo(s, N, e, sticky, Max(e + BitLen(N) - MantBits, MinExp))

\* float(n) for a Python int n
FromInt(n) ==
    Round(IF n < 0 THEN 1 ELSE 0, BFromInt(IF n < 0 THEN -n ELSE n), 0, FALSE)

ToFloat(x) == IF IsInt(x) THEN FromInt(x[2]) ELSE x

\* 2.0 ** n for n in the range of the normal numbers
PowerOfTwo(n) == Float(0, BShl(<<1>>, MantBits - 1), n - (MantBits - 1))

FNeg(x) == Float(1 - Sign(x), Mant(x), Exp(x))
FAbs(x) == Float(0, Mant(x), Exp(x))

\* -1, 0 or 1 as |x| is below, equal to or above |y| (neither a NaN)
MagCmp(x, y) ==
    IF Exp(x) < Exp(y) THEN -1
    ELSE IF Exp(x) > Exp(y) THEN 1
    ELSE BCmp(Mant(x), Mant(y))

\* -1, 0 or 1 as x is below, equal to or above y (neither a NaN); the two
\* zeros are equal
FCmp(x, y) ==
    IF IsZero(x) /\ IsZero(y) THEN 0
    ELSE IF Sign(x) # Sign(y) THEN (IF Sign(x) = 1 THEN -1 ELSE 1)
    ELSE IF Sign(x) = 0 THEN MagCmp(x, y) ELSE -MagCmp(x, y)

\* the comparisons of two float64: every comparison with a NaN is false
EqF64(x, y) == ~IsNaN(x) /\ ~IsNaN(y) /\ FCmp(x, y) = 0
LtF64(x, y) == ~IsNaN(x) /\ ~IsNaN(y) /\ FCmp(x, y) < 0
LeF64(x, y) == ~IsNaN(x) /\ ~IsNaN(y) /\ FCmp(x, y) <= 0

\* x + y when one of them is an infinity or a NaN
AddSpecial(x, y) ==
    IF IsNaN(x) \/ IsNaN(y) \/ (IsInf(x) /\ IsInf(y) /\ Sign(x) # Sign(y))
    THEN NaN
    ELSE IF IsInf(x) THEN x ELSE y

\* x + y when one of them is a zero: the other one, and -0.0 only for two
\* negative zeros
AddZero(x, y) ==
    IF IsZero(x) /\ IsZero(y)
    THEN Zero(IF Sign(x) = 1 /\ Sign(y) = 1 THEN 1 ELSE 0)
    ELSE IF IsZero(x) THEN y ELSE x

\* the magnitude of x + y from the aligned significands mx and my
AddMant(x, y, mx, my) ==
    IF Sign(x) = Sign(y) THEN BAdd(mx, my)
    ELSE IF MagCmp(x, y) > 0 THEN BSub(mx, my)
    ELSE BSub(my, mx)

\* x + y with both significands aligned to the exponent e; the sign is the
\* one of the operand of larger magnitude
AddAt(x, y, e) ==
    Round(IF MagCmp(x, y) >= 0 THEN Sign(x) ELSE Sign(y),
          AddMant(x, y, BShl(Mant(x), Exp(x) - e), BShl(Mant(y), Exp(y) - e)),
          e, FALSE)

\* x + y of two finite numbers other than zero; x + (-x) is +0.0
AddAligned(x, y) ==
    IF Sign(x) # Sign(y) /\ MagCmp(x, y) = 0
    THEN Zero(0)
    ELSE AddAt(x, y, Min(Exp(x), Exp(y)))

\* x + y of two float64.  When the exponents are more than AlignLimit apart
\* the smaller operand is below a thousandth of the spacing of the floats
\* around the larger one, and the sum rounds to the larger one.
AlignLimit == 64

AddF64(x, y) ==
    IF IsSpecial(x) \/ IsSpecial(y) THEN AddSpecial(x, y)
    ELSE IF IsZero(x) \/ IsZero(y) THEN AddZero(x, y)
    ELSE IF Exp(x) - Exp(y) > AlignLimit THEN x
    ELSE IF Exp(y) - Exp(x) > AlignLimit THEN y
    ELSE AddAligned(x, y)

\* x * y when one of them is an infinity, a NaN or a zero
MulSpecial(x, y, s) ==
    IF IsNaN(x) \/ IsNaN(y) THEN NaN
    ELSE IF IsInf(x) \/ IsInf(y)
         THEN (IF IsZero(x) \/ IsZero(y) THEN NaN ELSE Inf(s))
    ELSE Zero(s)

MulF64(x, y) ==
    IF IsSpecial(x) \/ IsSpecial(y) \/ IsZero(x) \/ IsZero(y)
    THEN MulSpecial(x, y, (Sign(x) + Sign(y)) % 2)
    ELSE Round((Sign(x) + Sign(y)) % 2, BMul(Mant(x), Mant(y)),
               Exp(x) + Exp(y), FALSE)

\* Long division in base Base.  The significands of a division are scaled to
\* NormBits bits (four full limbs); the quotient gets a leading digit 0 or 1
\* and four digits more, QuotLimbs in all.
NormBits == 56
QuotLimbs == 5

\* an estimate of floor(RB / D) for RB < D * Base and D of NormBits bits,
\* from the two leading limbs of RB and the leading limb of D: the digit,
\* or up to 2 above it
DivEstimate(RB, D) ==
    Min(Base - 1,
        (Limb(RB, Len(D) + 1) * Base + Limb(RB, Len(D))) \div D[Len(D)])

\* the digit floor(RB / D)
DivDigit(RB, D, est) ==
    CHOOSE c \in (est - 2)..est :
        /\ c >= 0
        /\ BCmp(BMulSmall(D, c), RB) <= 0
        /\ BCmp(BMulSmall(D, c + 1), RB) > 0

\* the digit q and the remainder it leaves
DivRemainder(RB, D, q) == <<q, BSub(RB, BMulSmall(D, q))>>

\* one step: the next digit of R / D, floor(R * Base / D), and the remainder
DivStep(R, D) ==
    DivRemainder(BShiftLimbs(R, 1), D,
                 DivDigit(BShiftLimbs(R, 1), D,
                          DivEstimate(BShiftLimbs(R, 1), D)))

\* the quotient Q so far (least significant digit first) and the remainder
\* R, taken to QuotLimbs digits
RECURSIVE DivDigits(_, _, _)
DivAppend(Q, st, D) == DivDigits(<<st[1]>> \o Q, st[2], D)

DivDigits(Q, R, D) ==
    IF Len(Q) >= QuotLimbs THEN <<Q, R>> ELSE DivAppend(Q, DivStep(R, D), D)

\* the quotient of the scaled significands A and D and the remainder, from
\* the leading digit q0
DivFrom(A, D, q0) == DivDigits(<<q0>>, IF q0 = 1 THEN BSub(A, D) ELSE A, D)

\* the quotient QR[1] at exponent e, rounded; a remainder makes it inexact
DivRound(s, QR, e) == Round(s, BTrim(QR[1]), e, QR[2] # <<>>)

\* the number of bits a significand is scaled by
DivShift(x) == NormBits - BitLen(Mant(x))

\* x / y when one of them is an infinity, a NaN or a zero; division by
\* zero gives inf or nan (numpy warns and goes on)
DivSpecial(x, y, s) ==
    IF IsNaN(x) \/ IsNaN(y) \/ (IsInf(x) /\ IsInf(y)) \/ (IsZero(x) /\ IsZero(y))
    THEN NaN
    ELSE IF IsInf(x) \/ IsZero(y) THEN Inf(s) ELSE Zero(s)

\* x / y of two finite numbers other than zero, with the significands A and
\* D scaled to NormBits bits
DivScaled(x, y, A, D) ==
    DivRound((Sign(x) + Sign(y)) % 2,
             DivFrom(A, D, IF BCmp(A, D) >= 0 THEN 1 ELSE 0),
             (Exp(x) - DivShift(x)) - (Exp(y) - DivShift(y)) - NormBits)

DivF64(x, y) ==
    IF IsSpecial(x) \/ IsSpecial(y) \/ IsZero(x) \/ IsZero(y)
    THEN DivSpecial(x, y, (Sign(x) + Sign(y)) % 2)
    ELSE DivScaled(x, y, BShl(Mant(x), DivShift(x)), BShl(Mant(y), DivShift(y)))

\* the operators +, -, * and / of the program on two numbers of which at
\* least one is a float64 (the result is a float64), and the comparisons
FAdd(a, b) == AddF64(ToFloat(a), ToFloat(b))
FSub(a, b) == AddF64(ToFloat(a), FNeg(ToFloat(b)))
FMul(a, b) == MulF64(ToFloat(a), ToFloat(b))
FDiv(a, b) == DivF64(ToFloat(a), ToFloat(b))
FEq(a, b) == EqF64(ToFloat(a), ToFloat(b))
FLt(a, b) == LtF64(ToFloat(a), ToFloat(b))
FLe(a, b) == LeF64(ToFloat(a), ToFloat(b))

\* a / b at line 149: between two ints Python raises on a zero divisor
Divide(a, b) ==
    IF IsInt(a) /\ IsInt(b) /\ b[2] = 0 THEN ZeroDivisionError ELSE FDiv(a, b)

\* the float64 values 0.0, 1.0, 2.0, 0.5 and 0.1; 2.0 ** -600, whose square
\* is below the smallest float64; 2.0 ** 1023, whose double and whose square
\* are above the largest
Zero0 == Zero(0)
One == FromInt(1)
Two == FromInt(2)
Half == FDiv(FromInt(1), FromInt(2))
Tenth == FDiv(FromInt(1), FromInt(10))
Tiny == PowerOfTwo(-600)
Big == PowerOfTwo(1023)

-----------------------------------------------------------------------------
(* Metric functions *)

\* the sum of column j over the first n rows (n >= 1), added up in row order
RECURSIVE ColumnSum(_, _, _)
ColumnSum(rows, j, n) ==
    IF n = 1 THEN rows[1][j] ELSE FAdd(ColumnSum(rows, j, n - 1), rows[n][j])

\* df.mean(): per column, the sum of the rows divided by their count; NaN for
\* a frame without rows
find_centroid_df(rows) ==
    IF Len(rows) = 0
    THEN [j \in Columns |-> NaN]
    ELSE AsSeq([j \in Columns |->
                  FDiv(ColumnSum(rows, j, Len(rows)), PyInt(Len(rows)))])

\* the inner loop (lines 35-38) over the first `index` values of a row
RECURSIVE AccumulateRow(_, _, _, _)
AccumulateRow(total, row, c, index) ==
    IF index = 0
    THEN total
    ELSE LET diff == FSub(row[index], c[index])
             diffsq == FMul(diff, diff)
         IN FAdd(AccumulateRow(total, row, c, index - 1), diffsq)

\* the outer loop (line 34) over the first n rows
RECURSIVE AccumulateRows(_, _, _)
AccumulateRows(data, c, n) ==
    IF n = 0
    THEN PyInt(0)
    ELSE AccumulateRow(AccumulateRows(data, c, n - 1), data[n], c, Len(data[n]))

\* total += diff: the deviation is accumulated without being squared
RECURSIVE AccumulateRow_unsquared(_, _, _, _)
AccumulateRow_unsquared(total, row, c, index) ==
    IF index = 0
    THEN total
    ELSE LET diff == FSub(row[index], c[index])
         IN FAdd(AccumulateRow_unsquared(total, row, c, index - 1), diff)

RECURSIVE AccumulateRows_unsquared(_, _, _)
AccumulateRows_unsquared(data, c, n) ==
    IF n = 0
    THEN PyInt(0)
    ELSE AccumulateRow_unsquared(AccumulateRows_unsquared(data, c, n - 1),
                                 data[n], c, Len(data[n]))

total_sum_of_squares_unsquared(data, c) ==
    AccumulateRows_unsquared(data, c, Len(data))

\* centroid[0] for every column: the column index is dropped
RECURSIVE AccumulateRow_first_column(_, _, _, _)
AccumulateRow_first_column(total, row, c, index) ==
    IF index = 0
    THEN total
    ELSE LET diff == FSub(row[index], c[1])
             diffsq == FMul(diff, diff)
         IN FAdd(AccumulateRow_first_column(total, row, c, index - 1), diffsq)

RECURSIVE AccumulateRows_first_column(_, _, _)
AccumulateRows_first_column(data, c, n) ==
    IF n = 0
    THEN PyInt(0)
    ELSE AccumulateRow_first_column(AccumulateRows_first_column(data, c, n - 1),
                                    data[n], c, Len(data[n]))

total_sum_of_squares_first_column(data, c) ==
    AccumulateRows_first_column(data, c, Len(data))

\* abs(diff) is accumulated in place of diff * diff
RECURSIVE AccumulateRow_abs(_, _, _, _)
AccumulateRow_abs(total, row, c, index) ==
    IF index = 0
    THEN total
    ELSE LET diff == FSub(row[index], c[index])
         IN FAdd(AccumulateRow_abs(total, row, c, index - 1), FAbs(diff))

RECURSIVE AccumulateRows_abs(_, _, _)
AccumulateRows_abs(data, c, n) ==
    IF n = 0
    THEN PyInt(0)
    ELSE AccumulateRow_abs(AccumulateRows_abs(data, c, n - 1),
                           data[n], c, Len(data[n]))

total_sum_of_squares_abs(data, c) == AccumulateRows_abs(data, c, Len(data))

total_sum_of_squares(data, c) == AccumulateRows(data, c, Len(data))

\* lines 19-20 give the local variable centroid its value, line 22 passes
\* that value on
total_sum_of_squares_df(rows, c) ==
    CHOOSE total \in {total_sum_of_squares(rows, cen) :
                        cen \in {IF c = None
                                       THEN find_centroid_df(rows)
                                       ELSE c}} : TRUE

-----------------------------------------------------------------------------
(* Clustering functions.  A dict is a sequence of <<key, value>> pairs in     *)
(* insertion order; row indexes are the program's, counted from 0.           *)

HasKey(d, key) == \E g \in DOMAIN d : d[g][1] = key

RECURSIVE GroupPrefix(_, _)
GroupPrefix(a, n) ==
    IF n = 0
    THEN <<>>
    ELSE LET cluster_slices == GroupPrefix(a, n - 1)
             assignment == a[n]
             index == n - 1
         IN IF HasKey(cluster_slices, assignment)
            THEN [g \in DOMAIN cluster_slices |->
                    IF cluster_slices[g][1] = assignment
                    THEN <<assignment, Append(cluster_slices[g][2], index)>>
                    ELSE cluster_slices[g]]
            ELSE Append(cluster_slices, <<assignment, <<index>>>>)

\* cluster_slices[assignment] = [index]: a label seen again starts a new list
RECURSIVE GroupPrefix_overwrite(_, _)
GroupPrefix_overwrite(a, n) ==
    IF n = 0
    THEN <<>>
    ELSE LET cluster_slices == GroupPrefix_overwrite(a, n - 1)
             assignment == a[n]
             index == n - 1
         IN IF HasKey(cluster_slices, assignment)
            THEN [g \in DOMAIN cluster_slices |->
                    IF cluster_slices[g][1] = assignment
                    THEN <<assignment, <<index>>>>
                    ELSE cluster_slices[g]]
            ELSE Append(cluster_slices, <<assignment, <<index>>>>)

get_cluster_indexes_overwrite(a) == GroupPrefix_overwrite(a, Len(a))

\* cluster_slices[assignment].insert(0, index): the index goes to the front
RECURSIVE GroupPrefix_prepend(_, _)
GroupPrefix_prepend(a, n) ==
    IF n = 0
    THEN <<>>
    ELSE LET cluster_slices == GroupPrefix_prepend(a, n - 1)
             assignment == a[n]
             index == n - 1
         IN IF HasKey(cluster_slices, assignment)
            THEN [g \in DOMAIN cluster_slices |->
                    IF cluster_slices[g][1] = assignment
                    THEN <<assignment, <<index>> \o cluster_slices[g][2]>>
                    ELSE cluster_slices[g]]
            ELSE Append(cluster_slices, <<assignment, <<index>>>>)

get_cluster_indexes_prepend(a) == GroupPrefix_prepend(a, Len(a))

\* the dict is filled with an empty list for every label up to the largest
\* one before the pass over the assignments
RECURSIVE MaxLabel(_, _)
MaxLabel(a, n) ==
    IF n = 0 THEN -1
    ELSE IF a[n] > MaxLabel(a, n - 1) THEN a[n] ELSE MaxLabel(a, n - 1)

get_cluster_indexes_dense(a) ==
    [g \in 1..(MaxLabel(a, Len(a)) + 1) |->
        <<g - 1, SelectSeq([i \in 1..Len(a) |-> i - 1],
                           LAMBDA i : a[i + 1] = g - 1)>>]

get_cluster_indexes(a) == GroupPrefix(a, Len(a))

\* df.iloc[v]: the rows at the positions v, in the order of v
\* the positions are taken one too low, the first one clamped
iloc_shifted(rows, v) == [i \in DOMAIN v |-> rows[IF v[i] = 0 THEN 1 ELSE v[i]]]

iloc(rows, v) == [i \in DOMAIN v |-> rows[v[i] + 1]]

get_cluster_data(rows, a) ==
    LET idx == get_cluster_indexes(a)
    IN [g \in DOMAIN idx |-> <<idx[g][1], iloc(rows, idx[g][2])>>]

get_clusters(rows, a) ==
    LET data == get_cluster_data(rows, a)
    IN [g \in DOMAIN data |->
          <<data[g][1], find_centroid_df(data[g][2]), data[g][2]>>]

-----------------------------------------------------------------------------
(* Inputs *)

SeqsUpTo(S, lo, hi) == UNION {[1..m -> S] : m \in lo..hi}

\* the dataset of the worked scenario of the specification
Scenario == <<<<One, Zero0>>, <<Two, Zero0>>, <<Two, One>>, <<One, One>>>>

\* two pairs of rows 0.1 and 2.0: split one of each into two clusters, both
\* clusters have the mean of the whole dataset
Tenths == <<<<Tenth, Zero0>>, <<Tenth, Zero0>>, <<Two, Zero0>>, <<Two, Zero0>>>>
TenthsRows == {Tenths[i] : i \in DOMAIN Tenths}

\* rows at the ends of the float64 range, and a row with an infinity (the
\* text inf in the file)
ExtremeRows ==
    {<<Big, Zero0>>, <<FNeg(Big), Zero0>>, <<Inf(0), Zero0>>, <<One, Zero0>>}

\* the first passes of the loop body: the scenario, the datasets as long as
\* Tenths over its rows, and the datasets of one or two extreme rows
EvalDatasets ==
    {Scenario} \cup SeqsUpTo(TenthsRows, 1, Len(Tenths))
               \cup SeqsUpTo(ExtremeRows, 1, 2)

\* main(): rows of the dataset read_data returns
MainRows == {Scenario[1], Scenario[3]}

\* the metric on its own: 0.0, 1.0, 0.1 (the mean of three of them is not
\* 0.1), the values whose squares underflow and overflow, and an infinity
MetricValues == {Zero0, One, Tenth, Tiny, Big, Inf(0)}
MetricRows == {<<a, Zero0>> : a \in MetricValues} \cup {<<One, One>>}

Labels == 0..(MaxLabels - 1)

NModels == Len(ModelNames)
NK == KStop - KFirst

\* the first n (model, k) pairs in the order of the loops of lines 131 and 136
LoopOrder(n) ==
    [i \in 1..n |-> <<((i - 1) \div NK) + 1, ((i - 1) % NK) + KFirst>>]

create_model(m, n) == [name |-> ModelNames[m], n |-> n]

-----------------------------------------------------------------------------
(* main() *)

Init ==
    /\ pc = "read"
    /\ df = <<>>
    /\ tss = None
    /\ centroid = None
    /\ mi = 1
    /\ k = KFirst
    /\ model = None
    /\ assignments = <<>>
    /\ cluster_indexes = <<>>
    /\ clusters = <<>>
    /\ ci = 1
    /\ twss = None
    /\ printed = <<>>
    /\ ratio = None
    /\ visited = <<>>
    /\ created = 0
    /\ tssLines = 0
    /\ banners = 0

\* lines 115-118: read_data returns the cleaned, encoded dataset
ReadData ==
    /\ pc = "read"
    /\ \E d \in SeqsUpTo(MainRows, 0, MainMaxRows) : df' = d
    /\ pc' = "tss"
    /\ UNCHANGED <<tss, centroid, mi, k, model, assignments, cluster_indexes,
                   clusters, ci, twss, printed, ratio, visited, created,
                   tssLines, banners>>

\* line 118: read_data raises (no file at the path, no Type column);
\* nothing catches it and the run ends before anything is computed
ReadDataFails ==
    /\ pc = "read"
    /\ pc' = "read_failed"
    /\ UNCHANGED <<df, tss, centroid, mi, k, model, assignments,
                   cluster_indexes, clusters, ci, twss, printed, ratio,
                   visited, created, tssLines, banners>>

\* lines 120-123
CalcTss ==
    /\ pc = "tss"
    /\ tss' = total_sum_of_squares_df(df, None)
    /\ tssLines' = tssLines + 1
    /\ mi' = 1
    /\ pc' = "model"
    /\ UNCHANGED <<df, centroid, k, model, assignments, cluster_indexes,
                   clusters, ci, twss, printed, ratio, visited, created,
                   banners>>

\* line 131 and lines 132-135: the next model's banner, or the end of main
NextModel ==
    /\ pc = "model"
    /\ IF mi <= NModels
       THEN /\ banners' = banners + 1
            /\ k' = KFirst
            /\ pc' = "create"
       ELSE /\ pc' = "done"
            /\ UNCHANGED <<banners, k>>
    /\ UNCHANGED <<df, tss, centroid, mi, model, assignments, cluster_indexes,
                   clusters, ci, twss, printed, ratio, visited, created,
                   tssLines>>

\* lines 136-139: the next k and its model, or the next model
CreateModel ==
    /\ pc = "create"
    /\ IF k < KStop
       THEN /\ model' = create_model(mi, k)
            /\ created' = created + 1
            /\ pc' = "run"
            /\ mi' = mi
       ELSE /\ mi' = mi + 1
            /\ pc' = "model"
            /\ UNCHANGED <<model, created>>
    /\ UNCHANGED <<df, tss, centroid, k, assignments, cluster_indexes,
                   clusters, ci, twss, printed, ratio, visited, tssLines,
                   banners>>

\* line 140: the library fits the model and returns one label below k per row
RunModel ==
    /\ pc = "run"
    /\ Len(df) > 0
    /\ \E a \in [1..Len(df) -> 0..(Min(k, MaxLabels) - 1)] : assignments' = a
    /\ pc' = "clusters"
    /\ UNCHANGED <<df, tss, centroid, mi, k, model, cluster_indexes, clusters,
                   ci, twss, printed, ratio, visited, created, tssLines,
                   banners>>

\* line 140: the library raises (always for a dataset without rows); nothing
\* catches it and the run ends
RunModelFails ==
    /\ pc = "run"
    /\ pc' = "crashed"
    /\ UNCHANGED <<df, tss, centroid, mi, k, model, assignments,
                   cluster_indexes, clusters, ci, twss, printed, ratio,
                   visited, created, tssLines, banners>>

\* lines 141-143
GetClusters ==
    /\ pc = "clusters"
    /\ cluster_indexes' = get_cluster_indexes(assignments)
    /\ clusters' = get_clusters(df, assignments)
    /\ twss' = PyInt(0)
    /\ ci' = 1
    /\ printed' = <<>>
    /\ pc' = "loop"
    /\ UNCHANGED <<df, tss, centroid, mi, k, model, assignments, ratio,
                   visited, created, tssLines, banners>>

\* lines 144-147: one pass of the loop over clusters
ClusterTss ==
    /\ pc = "loop"
    /\ ci <= Len(clusters)
    /\ LET cluster == clusters[ci][1]
           c == clusters[ci][2]
           cluster_slice == clusters[ci][3]
           cluster_tss == total_sum_of_squares_df(cluster_slice, c)
       IN /\ printed' = Append(printed, <<cluster, cluster_tss, Len(cluster_slice)>>)
          /\ twss' = FAdd(twss, cluster_tss)
    /\ ci' = ci + 1
    /\ UNCHANGED <<pc, df, tss, centroid, mi, k, model, assignments,
                   cluster_indexes, clusters, ratio, visited, created,
                   tssLines, banners>>

\* lines 149-150: the twss/tss line, then the next k; a division of the int
\* 0 by the int 0 raises and ends the run
Summary ==
    /\ pc = "loop"
    /\ ci > Len(clusters)
    /\ IF Divide(twss, tss) = ZeroDivisionError
       THEN /\ pc' = "crashed"
            /\ UNCHANGED <<ratio, visited, k>>
       ELSE /\ ratio' = Divide(twss, tss)
            /\ visited' = Append(visited, <<mi, k>>)
            /\ k' = k + 1
            /\ pc' = "create"
    /\ UNCHANGED <<df, tss, centroid, mi, model, assignments, cluster_indexes,
                   clusters, ci, twss, printed, created, tssLines, banners>>

Next ==
    \/ ReadData
    \/ ReadDataFails
    \/ CalcTss
    \/ NextModel
    \/ CreateModel
    \/ RunModel
    \/ RunModelFails
    \/ GetClusters
    \/ ClusterTss
    \/ Summary

Spec == Init /\ [][Next]_vars

-----------------------------------------------------------------------------
(* The first passes of the loops of main, up to the summary line for       *)
(* k = EvalLastK of the first model, on every dataset of EvalDatasets       *)

EvalLastK == KFirst + 1

InitEval ==
    /\ pc = "tss"
    /\ df \in EvalDatasets
    /\ tss = None
    /\ centroid = None
    /\ mi = 1
    /\ k = KFirst
    /\ model = None
    /\ assignments = <<>>
    /\ cluster_indexes = <<>>
    /\ clusters = <<>>
    /\ ci = 1
    /\ twss = None
    /\ printed = <<>>
    /\ ratio = None
    /\ visited = <<>>
    /\ created = 0
    /\ tssLines = 0
    /\ banners = 0

NextEval ==
    /\ k <= EvalLastK
    /\ \/ CalcTss
       \/ NextModel
       \/ CreateModel
       \/ RunModel
       \/ RunModelFails
       \/ GetClusters
       \/ ClusterTss
       \/ Summary

SpecEval == InitEval /\ [][NextEval]_vars

-----------------------------------------------------------------------------
(* get_cluster_indexes on every label sequence of up to MaxLen labels *)

InitIdx ==
    /\ pc = "idx"
    /\ df = <<>>
    /\ tss = None
    /\ centroid = None
    /\ mi = 1
    /\ k = KFirst
    /\ model = None
    /\ assignments \in SeqsUpTo(Labels, 0, MaxLen)
    /\ cluster_indexes = <<>>
    /\ clusters = <<>>
    /\ ci = 1
    /\ twss = None
    /\ printed = <<>>
    /\ ratio = None
    /\ visited = <<>>
    /\ created = 0
    /\ tssLines = 0
    /\ banners = 0

CallGetClusterIndexes ==
    /\ pc = "idx"
    /\ cluster_indexes' = get_cluster_indexes(assignments)
    /\ pc' = "idx_done"
    /\ UNCHANGED <<df, tss, centroid, mi, k, model, assignments, clusters, ci,
                   twss, printed, ratio, visited, created, tssLines, banners>>

NextIdx == CallGetClusterIndexes

SpecIdx == InitIdx /\ [][NextIdx]_vars

-----------------------------------------------------------------------------
(* total_sum_of_squares_df without a centroid on every dataset of up to      *)
(* MaxRows rows, the empty one included                                      *)

InitMetric ==
    /\ pc = "metric"
    /\ df \in SeqsUpTo(MetricRows, 0, MaxRows)
    /\ tss = None
    /\ centroid = None
    /\ mi = 1
    /\ k = KFirst
    /\ model = None
    /\ assignments = <<>>
    /\ cluster_indexes = <<>>
    /\ clusters = <<>>
    /\ ci = 1
    /\ twss = None
    /\ printed = <<>>
    /\ ratio = None
    /\ visited = <<>>
    /\ created = 0
    /\ tssLines = 0
    /\ banners = 0

\* lines 20-23
CallTotalSumOfSquaresDf ==
    /\ pc = "metric"
    /\ centroid' = find_centroid_df(df)
    /\ tss' = total_sum_of_squares_df(df, None)
    /\ pc' = "metric_done"
    /\ UNCHANGED <<df, mi, k, model, assignments, cluster_indexes, clusters,
                   ci, twss, printed, ratio, visited, created, tssLines,
                   banners>>

NextMetric == CallTotalSumOfSquaresDf

SpecMetric == InitMetric /\ [][NextMetric]_vars

-----------------------------------------------------------------------------
(* Properties *)

IdxDone == pc = "idx_done"
EvalDone == pc = "create" /\ k = EvalLastK + 1
MetricDone == pc = "metric_done"

\* the places <<group, position>> at which row index i is stored
Places(i) ==
    {gp \in UNION {{<<g, p>> : p \in DOMAIN cluster_indexes[g][2]} :
                     g \in DOMAIN cluster_indexes} :
        cluster_indexes[gp[1]][2][gp[2]] = i}

\* C1: partition completeness. The groups returned by get_cluster_indexes
\* hold row indexes of 0..n-1 only, and every index of 0..n-1 is stored at
\* exactly one place: in one group, once.
C1_PartitionComplete ==
    IdxDone =>
        /\ \A g \in DOMAIN cluster_indexes :
             \A p \in DOMAIN cluster_indexes[g][2] :
                cluster_indexes[g][2][p] \in 0..(Len(assignments) - 1)
        /\ \A i \in 0..(Len(assignments) - 1) : Cardinality(Places(i)) = 1

C1_Witness ==
    /\ IdxDone
    /\ Len(assignments) = 5
    /\ Len(cluster_indexes) = 2
    /\ Len(cluster_indexes[1][2]) >= 2

\* C4: stable grouping. Inside every group the indexes are strictly
\* increasing and carry the group's label, the groups appear in the order of
\* their first row, and [0,1,0,1,1] gives {0: [0,2], 1: [1,3,4]}.
C4_StableGrouping ==
    IdxDone =>
        /\ \A g \in DOMAIN cluster_indexes :
             LET label == cluster_indexes[g][1]
                 v == cluster_indexes[g][2]
             IN /\ \A p \in DOMAIN v : assignments[v[p] + 1] = label
                /\ \A p, q \in DOMAIN v : p < q => v[p] < v[q]
        /\ assignments = <<0, 1, 0, 1, 1>> =>
             cluster_indexes = << <<0, <<0, 2>>>>, <<1, <<1, 3, 4>>>> >>

C4_Witness ==
    /\ IdxDone
    /\ assignments = <<0, 1, 0, 1, 1>>
    /\ cluster_indexes = << <<0, <<0, 2>>>>, <<1, <<1, 3, 4>>>> >>

\* C9: no empty cluster. Every group of get_cluster_indexes holds at least
\* one index, there are as many groups as distinct labels in the assignments,
\* every cluster handed to find_centroid_df has at least one row, and no
\* printed cluster line has size 0.
C9_NoEmptyCluster ==
    /\ \A g \in DOMAIN cluster_indexes : Len(cluster_indexes[g][2]) >= 1
    /\ pc = "loop" =>
          Len(cluster_indexes) =
              Cardinality({assignments[i] : i \in DOMAIN assignments})
    /\ pc = "loop" => Len(clusters) = Len(cluster_indexes)
    /\ \A g \in DOMAIN clusters : Len(clusters[g][3]) >= 1
    /\ \A p \in DOMAIN printed : printed[p][3] > 0

\* k = 2 and both rows labelled 1: label 0 is assigned to no row
C9_Witness ==
    /\ pc = "loop"
    /\ k >= 2
    /\ Len(assignments) = 2
    /\ \A i \in DOMAIN assignments : assignments[i] = 1
    /\ Len(printed) = 1

AllSameLabel == \A i, j \in DOMAIN assignments : assignments[i] = assignments[j]

\* C2 as stated: with every row in one cluster, TWSS equals the global TSS
\* and the reported ratio is 1.0.
C2_SingleClusterRatioOne ==
    (EvalDone /\ AllSameLabel) => (FEq(twss, tss) /\ FEq(ratio, One))

FiniteNonZero(x) == ~IsSpecial(x) /\ ~IsZero(x)

\* C2 as amended: with every row in one cluster, TWSS is the same float64
\* as the global TSS; the reported ratio is 1.0 when that TSS is finite and
\* not 0, and nan when it is 0.0, inf or nan.
C2_SingleClusterIdentity ==
    (EvalDone /\ AllSameLabel) =>
        /\ twss = tss
        /\ FiniteNonZero(tss) => FEq(ratio, One)
        /\ ~FiniteNonZero(tss) => IsNaN(ratio)

C2_Witness ==
    /\ EvalDone
    /\ AllSameLabel
    /\ df = Tenths
    /\ FiniteNonZero(tss)
    /\ twss = tss
    /\ FEq(ratio, One)

RowsEqualCentroid ==
    \A i \in DOMAIN df : \A j \in Columns : FEq(df[i][j], centroid[j])
AllRowsIdentical ==
    \A i, j \in DOMAIN df : \A c \in Columns : FEq(df[i][c], df[j][c])

\* C3 as stated: TSS(D, centroid(D)) >= 0, and it is 0 iff every row equals
\* the centroid, which is the case iff all rows are identical.
C3_ZeroIffIdentical ==
    MetricDone =>
        /\ FLe(Zero0, tss)
        /\ FEq(tss, Zero0) <=> RowsEqualCentroid
        /\ RowsEqualCentroid <=> AllRowsIdentical

HoldsInfinity == \E i \in DOMAIN df : \E j \in Columns : IsInf(df[i][j])

\* C3 as amended: for a dataset D of finite numbers TSS(D, centroid(D)) is
\* >= 0 (inf when a sum or a square overflows), and it is 0 whenever every
\* row equals the computed centroid; for a dataset that holds an infinity it
\* is nan.
C3_NonNegativeZeroAtCentroid ==
    MetricDone =>
        /\ ~HoldsInfinity =>
              /\ FLe(Zero0, tss)
              /\ RowsEqualCentroid => FEq(tss, Zero0)
        /\ HoldsInfinity => IsNaN(tss)

C3_Witness ==
    /\ MetricDone
    /\ Len(df) = 3
    /\ df[1] = <<One, Zero0>>
    /\ RowsEqualCentroid
    /\ FEq(tss, Zero0)

ScenarioDone == EvalDone /\ df = Scenario /\ assignments = <<0, 0, 1, 1>>

ScenarioClusters ==
    /\ find_centroid_df(df) = <<FAdd(One, Half), Half>>
    /\ Len(clusters) = 2
    /\ clusters[1][2] = <<FAdd(One, Half), Zero0>>
    /\ clusters[2][2] = <<FAdd(One, Half), One>>
    /\ printed = << <<0, Half, 2>>, <<1, Half, 2>> >>
    /\ twss = One

\* C6 as stated: in the worked scenario the centroids are [1.5, 0.5],
\* [1.5, 0] and [1.5, 1], each cluster TSS is 0.5, TWSS is 1.0, the global
\* TSS is 1.0 and the ratio is 1.0.
C6_ScenarioAsStated ==
    ScenarioDone =>
        (ScenarioClusters /\ tss = One /\ ratio = One)

\* C6 as amended: in the worked scenario the centroids are [1.5, 0.5],
\* [1.5, 0] and [1.5, 1], each cluster TSS is 0.5, TWSS is 1.0, the global
\* TSS is 2.0 and the ratio is 0.5.
C6_ScenarioAsComputed ==
    ScenarioDone =>
        (ScenarioClusters /\ tss = Two /\ ratio = Half)

C6_Witness == ScenarioDone /\ tss = Two /\ twss = One

\* C7: total_sum_of_squares_df on a dataset without rows ends in an error:
\* it never returns.
C7_EmptyFailsLoudly == ~(MetricDone /\ Len(df) = 0)

\* the order of the (model, k) pairs the claim gives: three models, k from 1
\* to 10
ClaimedOrder(n) == [i \in 1..n |-> <<((i - 1) \div 10) + 1, ((i - 1) % 10) + 1>>]
ClaimedNames == <<"KMeans", "H-Clustering", "Gaussian Mixture">>
InPair == pc \in {"run", "clusters", "loop", "crashed"}

\* the order of the lines printed so far, and the model of the current pair
C8_Order ==
    /\ (banners > 0 \/ created > 0 \/ Len(visited) > 0) => tssLines = 1
    /\ visited = ClaimedOrder(Len(visited))
    /\ Len(visited) <= 30
    /\ created = Len(visited) + (IF InPair THEN 1 ELSE 0)
    /\ InPair =>
          /\ <<mi, k>> = ClaimedOrder(created)[created]
          /\ model = [name |-> ClaimedNames[mi], n |-> k]

\* a run that ended without a failing model call
EndedWithoutModelFailure == pc \in {"done", "read_failed"}

C8_StateAsStated ==
    /\ C8_Order
    /\ EndedWithoutModelFailure =>
          (tssLines = 1 /\ Len(visited) = 30 /\ created = 30 /\ banners = 3)

C8_State ==
    /\ C8_Order
    /\ pc = "done" =>
          (tssLines = 1 /\ Len(visited) = 30 /\ created = 30 /\ banners = 3)
    /\ pc = "read_failed" =>
          (tssLines = 0 /\ Len(visited) = 0 /\ created = 0 /\ banners = 0)

\* a bound on the statements main has still to run: the pairs without a
\* summary line, each worth at most Len(df) + 7 steps, plus the steps left in
\* the current pair
StepsLeft ==
    LET n == Len(df)
        within == CASE pc = "loop" -> (Len(clusters) - ci + 1) + 1
                    [] pc = "clusters" -> n + 3
                    [] pc = "run" -> n + 4
                    [] pc = "create" -> IF k <= 10 THEN n + 5 ELSE n + 7
                    [] pc = "model" -> n + 6
                    [] pc = "tss" -> n + 8
                    [] OTHER -> 0
    IN IF pc \in {"done", "crashed", "read_failed"}
       THEN 0
       ELSE (30 - Len(visited)) * (n + 7) + within

C8_Step ==
    /\ pc # "read" => (0 <= StepsLeft' /\ StepsLeft' < StepsLeft)
    /\ visited' # visited =>
          /\ visited' = Append(visited, <<mi, k>>)
          /\ Len(printed) = Len(clusters)
          /\ printed' = printed
    /\ printed' # printed => visited' = visited
    /\ created' # created => (created' = created + 1 /\ visited' = visited)

\* C8 as stated: provided no model call fails, the tss line comes first; the
\* summary lines follow the order KMeans, H-Clustering, Gaussian Mixture
\* with k = 1..10 ascending, each pair once and each with a model created
\* for it; a pair's cluster lines are all printed before its one summary
\* line; and the run ends after exactly 30 summary lines.
C8_OrderAsStated == []C8_StateAsStated /\ [][C8_Step]_vars

\* C8 as amended: provided read_data returns a dataset and no model call
\* fails, the tss line comes first; the summary lines follow the order
\* KMeans, H-Clustering, Gaussian Mixture with k = 1..10 ascending, each pair
\* once and each with a model created for it; a pair's cluster lines are all
\* printed before its one summary line; every statement brings the end of
\* the run nearer, and the run ends after exactly 30 summary lines.  When
\* read_data fails the run ends with no line of the evaluation printed.
C8_EvaluationOrder == []C8_State /\ [][C8_Step]_vars

C8_Witness == pc = "done" /\ Len(visited) = 30 /\ created = 30

\* C10 as stated: 0 <= TWSS <= TSS, and the ratio lies in [0, 1] when TSS > 0.
C10_TwssWithinTss ==
    EvalDone =>
        /\ FLe(Zero0, twss)
        /\ FLe(twss, tss)
        /\ FLt(Zero0, tss) => (FLe(Zero0, ratio) /\ FLe(ratio, One))

\* C10 as amended: TWSS is never negative: it is >= 0 (inf on overflow), or
\* nan, and nan only when the dataset holds an infinity.  When TSS > 0 the
\* ratio is never negative: it is >= 0, or nan when TWSS and TSS are both
\* inf.
C10_TwssNonNegative ==
    EvalDone =>
        /\ FLe(Zero0, twss) \/ (IsNaN(twss) /\ HoldsInfinity)
        /\ FLt(Zero0, tss) =>
              \/ FLe(Zero0, ratio)
              \/ IsNaN(ratio) /\ IsInf(twss) /\ IsInf(tss)

C10_Witness ==
    /\ EvalDone
    /\ Len(clusters) = 2
    /\ FLt(Zero0, tss)
    /\ FLt(Zero0, twss)
    /\ FLt(twss, tss)
    /\ FLt(Zero0, ratio)
    /\ FLt(ratio, One)

====
